---------------------------- MODULE Spec2Model ----------------------------
(***************************************************************************)
(* Model of the scroll view of floem (src/views/scroll.rs): the viewport    *)
(* state, the clamp and pan algorithms, the scrollbar geometry, the hit     *)
(* tests, the bar-held (drag) state machine and the ScrollState commands.   *)
(*                                                                         *)
(* Numbers.  The code computes in f64.  A number is modelled as a pair      *)
(* <<n, d>>: with d > 0 the rational n/d in lowest terms, and with d = 0    *)
(* the IEEE-754 special values <<1,0>> = +inf, <<-1,0>> = -inf and          *)
(* <<0,0>> = NaN.  Finite arithmetic is exact (f64 rounding is not          *)
(* modelled, nor is the sign of zero: every zero is +0.0); division by     *)
(* zero and the NaN rules of comparison, min and max are those of f64.     *)
(***************************************************************************)
EXTENDS Integers, Sequences, FiniteSets, TLC

(***************************************************************************)
(* f64 arithmetic                                                          *)
(***************************************************************************)
RECURSIVE Gcd(_, _)
Gcd(a, b) == IF b = 0 THEN a ELSE Gcd(b, a % b)

IAbs(i) == IF i < 0 THEN -i ELSE i

Sgn(i) == IF i > 0 THEN 1 ELSE IF i < 0 THEN -1 ELSE 0

NaN == <<0, 0>>

PInf == <<1, 0>>

NInf == <<-1, 0>>

\* the f64 value of the integer i
F(i) == <<i, 1>>

\* the f64 value n/d, d > 0, in lowest terms
Q(n, d) == LET g == Gcd(IAbs(n), d) IN <<n \div g, d \div g>>

IsNaN(a) == a = NaN

IsFinite(a) == a[2] > 0

IsZero(a) == a[2] > 0 /\ a[1] = 0

FAdd(a, b) ==
    IF a[2] = 1 /\ b[2] = 1 THEN <<a[1] + b[1], 1>>
    ELSE IF IsNaN(a) \/ IsNaN(b) THEN NaN
    ELSE IF IsFinite(a) /\ IsFinite(b) THEN Q(a[1] * b[2] + b[1] * a[2], a[2] * b[2])
    ELSE IF IsFinite(a) THEN b
    ELSE IF IsFinite(b) THEN a
    ELSE IF a = b THEN a ELSE NaN

FNeg(a) == <<-a[1], a[2]>>

FSub(a, b) == IF a[2] = 1 /\ b[2] = 1 THEN <<a[1] - b[1], 1>> ELSE FAdd(a, FNeg(b))

FMul(a, b) ==
    IF a[2] = 1 /\ b[2] = 1 THEN <<a[1] * b[1], 1>>
    ELSE IF IsNaN(a) \/ IsNaN(b) THEN NaN
    ELSE IF IsFinite(a) /\ IsFinite(b) THEN Q(a[1] * b[1], a[2] * b[2])
    ELSE <<Sgn(a[1]) * Sgn(b[1]), 0>>

FDiv(a, b) ==
    IF IsNaN(a) \/ IsNaN(b) THEN NaN
    ELSE IF IsFinite(b) /\ b[1] # 0
        THEN IF IsFinite(a) THEN Q(a[1] * b[2] * Sgn(b[1]), a[2] * IAbs(b[1]))
             ELSE <<Sgn(a[1]) * Sgn(b[1]), 0>>
    ELSE IF IsFinite(b)
        THEN <<Sgn(a[1]), 0>>
    ELSE IF IsFinite(a) THEN F(0) ELSE NaN

FLt(a, b) ==
    IF a[2] = 1 /\ b[2] = 1 THEN a[1] < b[1]
    ELSE /\ ~IsNaN(a)
         /\ ~IsNaN(b)
         /\ IF a[2] = 0 /\ b[2] = 0 THEN a[1] < b[1] ELSE a[1] * b[2] < b[1] * a[2]

FEq(a, b) == ~IsNaN(a) /\ ~IsNaN(b) /\ a = b

FNe(a, b) == ~FEq(a, b)

FLe(a, b) == IF a[2] = 1 /\ b[2] = 1 THEN a[1] <= b[1] ELSE FLt(a, b) \/ FEq(a, b)

FGt(a, b) == FLt(b, a)

FGe(a, b) == FLe(b, a)

\* f64::min and f64::max return the other operand when one is NaN
FMin(a, b) ==
    IF a[2] = 1 /\ b[2] = 1 THEN (IF b[1] < a[1] THEN b ELSE a)
    ELSE IF IsNaN(a) THEN b ELSE IF IsNaN(b) THEN a ELSE IF FLt(b, a) THEN b ELSE a

FMax(a, b) ==
    IF a[2] = 1 /\ b[2] = 1 THEN (IF a[1] < b[1] THEN b ELSE a)
    ELSE IF IsNaN(a) THEN b ELSE IF IsNaN(b) THEN a ELSE IF FLt(a, b) THEN b ELSE a

FAbs(a) == <<IAbs(a[1]), a[2]>>

FCeil(a) == IF a[2] = 1 THEN a ELSE IF IsFinite(a) THEN F(-((-a[1]) \div a[2])) ELSE a


(***************************************************************************)
(* kurbo geometry as scroll.rs uses it: Point and Vec2 are [x, y], Size is  *)
(* [width, height], Rect is [x0, y0, x1, y1].                              *)
(***************************************************************************)
Pt(x, y) == [x |-> x, y |-> y]

Sz(w, h) == [width |-> w, height |-> h]

Rc(x0, y0, x1, y1) == [x0 |-> x0, y0 |-> y0, x1 |-> x1, y1 |-> y1]

PtAdd(p, v) == Pt(FAdd(p.x, v.x), FAdd(p.y, v.y))

RectZero == Rc(F(0), F(0), F(0), F(0))

SizeZero == Sz(F(0), F(0))

RectWidth(r) == FSub(r.x1, r.x0)

RectHeight(r) == FSub(r.y1, r.y0)

RectSize(r) == Sz(RectWidth(r), RectHeight(r))

RectOrigin(r) == Pt(r.x0, r.y0)

\* Rect::abs: the same rectangle with non-negative width and height
RectAbs(r) == Rc(FMin(r.x0, r.x1), FMin(r.y0, r.y1), FMax(r.x0, r.x1), FMax(r.y0, r.y1))

\* Rect::from_origin_size = Rect::from_points(origin, origin + size)
FromOriginSize(o, s) == RectAbs(Rc(o.x, o.y, FAdd(o.x, s.width), FAdd(o.y, s.height)))

WithOrigin(r, o) == FromOriginSize(o, RectSize(r))

WithSize(r, s) == FromOriginSize(RectOrigin(r), s)

\* Rect + Vec2
RectTranslate(r, v) == Rc(FAdd(r.x0, v.x), FAdd(r.y0, v.y), FAdd(r.x1, v.x), FAdd(r.y1, v.y))

\* a rectangle that holds its max edges too
RectContains_Closed(r, p) == FGe(p.x, r.x0) /\ FLe(p.x, r.x1) /\ FGe(p.y, r.y0) /\ FLe(p.y, r.y1)

\* Rect::contains: the min edges belong to the rectangle, the max edges do not
RectContains(r, p) == FGe(p.x, r.x0) /\ FLt(p.x, r.x1) /\ FGe(p.y, r.y0) /\ FLt(p.y, r.y1)

\* the derived PartialEq of Rect and of Size, field by field on f64
RectNe(a, b) == FNe(a.x0, b.x0) \/ FNe(a.y0, b.y0) \/ FNe(a.x1, b.x1) \/ FNe(a.y1, b.y1)

SizeNe(a, b) == FNe(a.width, b.width) \/ FNe(a.height, b.height)

\* Option<T>
None == <<>>

Some(v) == <<v>>

(***************************************************************************)
(* The state of a Scroll<V> (struct Scroll), and what the last stimulus     *)
(* did to its collaborators (out).                                         *)
(***************************************************************************)
VARIABLES
    size,                           \* the box the layout engine assigned
    actual_rect,                    \* the box without its padding
    child_size,                     \* the measured size of the content
    child_viewport,                 \* the viewport over the content
    held,                           \* BarHeldState
    propagate_pointer_wheel,
    vertical_scroll_as_horizontal,
    scroll_bar_style,               \* [hide, thickness]; colour, rounding and edge width only paint
    out                             \* the last stimulus and its effects on the collaborators

vars == <<size, actual_rect, child_size, child_viewport, held, propagate_pointer_wheel,
          vertical_scroll_as_horizontal, scroll_bar_style, out>>

\* const SCROLLBAR_MIN_SIZE: f64 = 10.0
SCROLLBAR_MIN_SIZE == 10

\* ScrollBarStyle::BASE.thickness
BASE_THICKNESS == 10

\* BarHeldState
HeldNone == [tag |-> "None"]

HeldVertical(offset, initial) == [tag |-> "Vertical", offset |-> offset, initial |-> initial]

HeldHorizontal(offset, initial) == [tag |-> "Horizontal", offset |-> offset, initial |-> initial]

(***************************************************************************)
(* clamp_child_viewport: the rectangle it computes from a candidate, and    *)
(* the effects of storing it.                                              *)
(***************************************************************************)
\* the clamp without its lower limit
ClampAxis_NoLowerLimit(c0, length, content) ==
    IF FGe(length, content) THEN F(0)
    ELSE IF FGt(c0, FSub(content, length)) THEN FSub(content, length)
    ELSE c0

\* lines 287-293 and 295-301: one axis of the candidate's min corner
ClampAxis(c0, length, content) ==
    IF FGe(length, content) THEN F(0)
    ELSE IF FGt(c0, FSub(content, length)) THEN FSub(content, length)
    ELSE IF FLt(c0, F(0)) THEN F(0)
    ELSE c0

\* lines 280-302: the rectangle clamp_child_viewport computes, with actual_rect = ar
\* and child_size = cs
Clamp(ar, cs, candidate) ==
    LET width == RectWidth(ar)
        height == RectHeight(ar)
        moved == [candidate EXCEPT !.x0 = ClampAxis(candidate.x0, width, cs.width),
                                   !.y0 = ClampAxis(candidate.y0, height, cs.height)]
    IN  WithSize(moved, RectSize(ar))

ClampedViewport(candidate) == Clamp(actual_rect, child_size, candidate)

\* out: the stimulus (op), the value of a command (arg, <<>> for the other
\* stimuli), what the handler returned (ret) and the calls it made: on_scroll
\* arguments, AppState::set_viewport arguments, the number of request_layout
\* calls, whether it passed the event on to the child (offered), whether
\* update_active was called, and whether the handler panicked.
Out(op, ret, relayout, offered, active) ==
    [op |-> op, arg |-> <<>>, ret |-> ret,
     onscroll |-> <<>>, set_viewport |-> <<>>, request_layout |-> relayout,
     offered |-> offered, active |-> active, panic |-> FALSE]

\* the calls made without comparing new with the stored viewport
StoreCalls_Always(stored, new) == <<new>>

\* lines 304-311: the calls clamp_child_viewport makes when it has computed new
\* and the viewport stored is stored: set_viewport, request_layout and on_scroll,
\* each with new, or none
StoreCalls(stored, new) == IF RectNe(new, stored) THEN <<new>> ELSE <<>>

\* lines 304-311: the viewport clamp_child_viewport leaves stored
Stored(stored, new) == IF RectNe(new, stored) THEN new ELSE stored

ClampCalls(new) == StoreCalls(child_viewport, new)

ClampStored(new) == Stored(child_viewport, new)

\* a clamp that stores the viewport and requests no layout
clamp_child_viewport_NoRelayout(candidate, o) ==
    LET new == ClampedViewport(candidate)
        calls == ClampCalls(new)
    IN  /\ child_viewport' = ClampStored(new)
        /\ out' = [o EXCEPT !.onscroll = calls, !.set_viewport = calls]
\* clamp_child_viewport(candidate) as the one clamp of a handler that reports o:
\* o is the handler's report without the calls of the clamp
clamp_child_viewport(candidate, o) ==
    LET new == ClampedViewport(candidate)
        calls == ClampCalls(new)
    IN  /\ child_viewport' = ClampStored(new)
        /\ out' = [o EXCEPT !.onscroll = calls, !.set_viewport = calls,
                            !.request_layout = @ + Len(calls)]

(***************************************************************************)
(* pan_to_visible                                                          *)
(***************************************************************************)
\* an edge on the viewport's min edge taken for one before it
closest_on_axis_StrictMin(val, min, max) ==
    IF FGt(val, min) /\ FLt(val, max) THEN F(0)
    ELSE IF FLt(val, min) THEN FSub(val, min)
    ELSE FSub(val, max)

\* lines 191-200, without the assertion
closest_on_axis(val, min, max) ==
    IF FGt(val, min) /\ FLt(val, max) THEN F(0)
    ELSE IF FLe(val, min) THEN FSub(val, min)
    ELSE FSub(val, max)

RectMinX(r) == FMin(r.x0, r.x1)

RectMaxX(r) == FMax(r.x0, r.x1)

RectMinY(r) == FMin(r.y0, r.y1)

RectMaxY(r) == FMax(r.y0, r.y1)

\* the target region as large as the rect given
PanTarget_Whole(rect) == rect
\* lines 205-209: the target region, its size clamped to the viewport's
PanTarget(rect) ==
    WithSize(rect, Sz(FMin(RectWidth(rect), RectWidth(child_viewport)),
                      FMin(RectHeight(rect), RectHeight(child_viewport))))

\* line 192, for the four calls of lines 211-230: assert!(min <= max)
PanAsserts ==
    /\ FLe(RectMinX(child_viewport), RectMaxX(child_viewport))
    /\ FLe(RectMinY(child_viewport), RectMaxY(child_viewport))

\* lines 211-233: the delta pan_to_visible(rect) adds to the origin
PanDelta(rect) ==
    LET t == PanTarget(rect)
        x0 == closest_on_axis(RectMinX(t), RectMinX(child_viewport), RectMaxX(child_viewport))
        x1 == closest_on_axis(RectMaxX(t), RectMinX(child_viewport), RectMaxX(child_viewport))
        y0 == closest_on_axis(RectMinY(t), RectMinY(child_viewport), RectMaxY(child_viewport))
        y1 == closest_on_axis(RectMaxY(t), RectMinY(child_viewport), RectMaxY(child_viewport))
    IN  Pt(IF FGt(FAbs(x0), FAbs(x1)) THEN x0 ELSE x1,
           IF FGt(FAbs(y0), FAbs(y1)) THEN y0 ELSE y1)

\* lines 234-235: the candidate pan_to_visible(rect) hands to clamp_child_viewport
PanCandidate(rect) ==
    WithOrigin(child_viewport, PtAdd(RectOrigin(child_viewport), PanDelta(rect)))

(***************************************************************************)
(* Scrollbar geometry and hit tests                                        *)
(***************************************************************************)
Thickness == F(scroll_bar_style.thickness)

\* a bar shown also when the viewport is exactly as long as the content
BarAbsent_Strict(viewport_length, content_length) == FGt(viewport_length, content_length)

\* lines 366 and 397: no bar on an axis whose viewport is as long as the content
BarAbsent(viewport_length, content_length) == FGe(viewport_length, content_length)

\* the length of the thumb without its minimum
BarLength_NoMinimum(percent_visible, viewport_length, minimum) ==
    FCeil(FMul(percent_visible, viewport_length))

\* lines 376-378 and 407-408: the length of the thumb
BarLength(percent_visible, viewport_length, minimum) ==
    FMax(FCeil(FMul(percent_visible, viewport_length)), minimum)

\* calc_vertical_bar_bounds for a viewport, a content size and a thickness
VerticalBarBounds(viewport, content_size, thickness) ==
    LET viewport_size == RectSize(viewport)
        scroll_offset == RectOrigin(viewport)
        bar_width == thickness
        bar_pad == F(0)
        percent_visible == FDiv(viewport_size.height, content_size.height)
        percent_scrolled ==
            FDiv(scroll_offset.y, FSub(content_size.height, viewport_size.height))
        length == BarLength(percent_visible, viewport_size.height, thickness)
        top_y_offset == FCeil(FMul(FSub(viewport_size.height, length), percent_scrolled))
        bottom_y_offset == FAdd(top_y_offset, length)
    IN  IF BarAbsent(viewport_size.height, content_size.height) THEN None
        ELSE Some(Rc(FSub(FSub(FAdd(scroll_offset.x, viewport_size.width), bar_width), bar_pad),
                     FAdd(scroll_offset.y, top_y_offset),
                     FSub(FAdd(scroll_offset.x, viewport_size.width), bar_pad),
                     FAdd(scroll_offset.y, bottom_y_offset)))

calc_vertical_bar_bounds == VerticalBarBounds(child_viewport, child_size, Thickness)

\* a horizontal thumb that runs the whole width, under the vertical bar too
HorizontalPadding_None(viewport_size, content_size, bar_pad, bar_width) == F(0)

\* lines 410-414: the room the horizontal thumb leaves for the vertical bar
HorizontalPadding(viewport_size, content_size, bar_pad, bar_width) ==
    IF FGe(viewport_size.height, content_size.height) THEN F(0)
    ELSE FAdd(FAdd(bar_pad, bar_pad), bar_width)

\* calc_horizontal_bar_bounds for a viewport, a content size and a thickness
HorizontalBarBounds(viewport, content_size, thickness) ==
    LET viewport_size == RectSize(viewport)
        scroll_offset == RectOrigin(viewport)
        bar_width == thickness
        bar_pad == F(0)
        percent_visible == FDiv(viewport_size.width, content_size.width)
        percent_scrolled ==
            FDiv(scroll_offset.x, FSub(content_size.width, viewport_size.width))
        length == BarLength(percent_visible, viewport_size.width, F(SCROLLBAR_MIN_SIZE))
        horizontal_padding == HorizontalPadding(viewport_size, content_size, bar_pad, bar_width)
        left_x_offset ==
            FCeil(FMul(FSub(FSub(viewport_size.width, length), horizontal_padding),
                       percent_scrolled))
        right_x_offset == FAdd(left_x_offset, length)
    IN  IF BarAbsent(viewport_size.width, content_size.width) THEN None
        ELSE Some(Rc(FAdd(scroll_offset.x, left_x_offset),
                     FSub(FSub(FAdd(scroll_offset.y, viewport_size.height), bar_width), bar_pad),
                     FAdd(scroll_offset.x, right_x_offset),
                     FSub(FAdd(scroll_offset.y, viewport_size.height), bar_pad)))

calc_horizontal_bar_bounds == HorizontalBarBounds(child_viewport, child_size, Thickness)

\* lines 451 and 477: the vertical bar's hitbox, stretched to the edge of the widget
VerticalHitbox(bounds) ==
    [bounds EXCEPT !.x1 = FAdd(child_viewport.x0, RectWidth(child_viewport))]

\* lines 464 and 490
HorizontalHitbox(bounds) ==
    [bounds EXCEPT !.y1 = FAdd(child_viewport.y0, RectHeight(child_viewport))]

point_within_vertical_bar(pos) ==
    LET bar == calc_vertical_bar_bounds
        bounds == VerticalHitbox(bar[1])
    IN  bar # None /\ FGe(pos.x, bounds.x0) /\ FLe(pos.x, bounds.x1)

\* a horizontal bar with no band
point_within_horizontal_bar_Never(pos) == FALSE

point_within_horizontal_bar(pos) ==
    LET bar == calc_horizontal_bar_bounds
        bounds == HorizontalHitbox(bar[1])
    IN  bar # None /\ FGe(pos.y, bounds.y0) /\ FLe(pos.y, bounds.y1)

point_hits_vertical_bar(pos) ==
    LET bar == calc_vertical_bar_bounds
        bounds == VerticalHitbox(bar[1])
    IN  bar # None /\ RectContains(bounds, pos)

point_hits_horizontal_bar(pos) ==
    LET bar == calc_horizontal_bar_bounds
        bounds == HorizontalHitbox(bar[1])
    IN  bar # None /\ RectContains(bounds, pos)

are_bars_held == held.tag # "None"

\* lines 430-433 and 178: the candidate click_vertical_bar_area(pos) hands to clamp
ClickVerticalCandidate(pos) ==
    LET new_y == FSub(FMul(FDiv(pos.y, RectHeight(actual_rect)), child_size.height),
                      FDiv(RectHeight(actual_rect), F(2)))
    IN  WithOrigin(child_viewport, Pt(child_viewport.x0, new_y))

\* lines 438-441 and 178
ClickHorizontalCandidate(pos) ==
    LET new_x == FSub(FMul(FDiv(pos.x, RectWidth(actual_rect)), child_size.width),
                      FDiv(RectWidth(actual_rect), F(2)))
    IN  WithOrigin(child_viewport, Pt(new_x, child_viewport.y0))

(***************************************************************************)
(* The stimuli the collaborators deliver, drawn from small sets.            *)
(***************************************************************************)
\* the layout engine's box for the view and the computed style's padding:
\* a box of 120 x 100 or, collapsed, 120 x 0, with 10 of padding left
\* (pixels) and right (a percentage of the width)
Px(v) == [unit |-> "Px", v |-> v]

Pct(v) == [unit |-> "Pct", v |-> v]

PaddedStyle ==
    [padding_left |-> Px(F(10)), padding_right |-> Pct(Q(1, 12)),
     padding_top |-> Px(F(0)), padding_bottom |-> Px(F(0))]

\* a layout pass gives the box, the style and the child's node layout (None
\* before the child has one)
Layouts ==
    {[size |-> Sz(120, 100), style |-> PaddedStyle, measure |-> Some(Sz(F(1000), F(1000)))],
     [size |-> Sz(120, 100), style |-> PaddedStyle, measure |-> Some(Sz(F(150), F(50)))],
     [size |-> Sz(120, 0), style |-> PaddedStyle, measure |-> Some(Sz(F(150), F(900)))]}

\* cx.scroll_bar_thickness, the thickness the style gives the bars
CxThickness == Some(20)

\* the positions pointer events arrive at, relative to the view
PointerPositions == {Pt(F(95), F(95)), Pt(F(5), F(95)), Pt(F(5), F(5))}

\* wheel deltas are whole notches of 900, up to MaxNotches, on either axis
MaxNotches == 1

WheelDeltas ==
    UNION {{Pt(F(0), F(-900 * k)), Pt(F(0), F(900 * k)), Pt(F(900 * k), F(0))} :
           k \in 1..MaxNotches}

ScrollDeltas == {Pt(F(900), F(-900))}

ScrollTargets == {Pt(F(950), F(950)), Pt(F(-50), F(0))}

VisibleRects == {Rc(F(0), F(0), F(50), F(50)), Rc(F(900), F(900), F(1000), F(1000))}

(***************************************************************************)
(* Construction (fn scroll)                                                *)
(***************************************************************************)
Init ==
    /\ size = SizeZero
    /\ actual_rect = RectZero
    /\ child_size = SizeZero
    /\ child_viewport = RectZero
    /\ held = HeldNone
    /\ propagate_pointer_wheel = FALSE
    /\ vertical_scroll_as_horizontal = FALSE
    /\ scroll_bar_style = [hide |-> FALSE, thickness |-> BASE_THICKNESS]
    /\ out = Out("scroll", FALSE, 0, FALSE, FALSE)

\* a panic ends the program
Running == ~out.panic

(***************************************************************************)
(* The layout pass: View::layout, then View::compute_layout                 *)
(***************************************************************************)
\* lines 577-579: the thickness of the bars as the context gives it
StyleFromCx(thickness) ==
    IF thickness = None THEN scroll_bar_style
    ELSE [scroll_bar_style EXCEPT !.thickness = thickness[1]]

\* lines 247-262: a padding in pixels; a percentage is multiplied by the width
Padding(p, layout_size) == IF p.unit = "Px" THEN p.v ELSE FMul(p.v, F(layout_size.width))

\* lines 263-268
ActualRect(layout_size, style) ==
    Rc(FAdd(F(0), Padding(style.padding_left, layout_size)),
       FAdd(F(0), Padding(style.padding_top, layout_size)),
       FSub(F(layout_size.width), Padding(style.padding_right, layout_size)),
       FSub(F(layout_size.height), Padding(style.padding_bottom, layout_size)))

\* line 240: self.child_size(app_state).unwrap_or_default()
MeasuredSize(measure) == IF measure = None THEN SizeZero ELSE measure[1]

\* View::layout (the style of the bars), then View::compute_layout: update_size,
\* then clamp_child_viewport(self.child_viewport) with the new sizes
LayoutPass(layout_size, style, measure) ==
    LET new_child_size == MeasuredSize(measure)
        new_actual_rect == ActualRect(layout_size, style)
        new_viewport == Clamp(new_actual_rect, new_child_size, child_viewport)
        calls == ClampCalls(new_viewport)
    IN  /\ Running
        /\ child_size' = new_child_size
        /\ size' = Sz(F(layout_size.width), F(layout_size.height))
        /\ actual_rect' = new_actual_rect
        /\ child_viewport' = ClampStored(new_viewport)
        /\ out' = [Out("compute_layout", FALSE,
                       IF SizeNe(child_size, new_child_size) THEN 1 ELSE 0, FALSE, FALSE)
                   EXCEPT !.onscroll = calls, !.set_viewport = calls,
                          !.request_layout = @ + Len(calls)]
        /\ scroll_bar_style' = StyleFromCx(CxThickness)
        /\ UNCHANGED <<held, propagate_pointer_wheel, vertical_scroll_as_horizontal>>

compute_layout == \E l \in Layouts : LayoutPass(l.size, l.style, l.measure)

(***************************************************************************)
(* View::update: the ScrollState commands.  Each ends with                  *)
(* cx.request_layout (line 562).                                           *)
(***************************************************************************)
\* the report of a command: its value, and the request_layout of line 562
Command(op, value) == [Out(op, FALSE, 1, FALSE, FALSE) EXCEPT !.arg = <<value>>]

EnsureVisibleOf(rect) ==
    /\ Running
    /\ IF PanAsserts
       THEN clamp_child_viewport(PanCandidate(rect), Command("EnsureVisible", rect))
       ELSE /\ out' = [Command("EnsureVisible", rect) EXCEPT !.request_layout = 0,
                                                             !.panic = TRUE]
            /\ UNCHANGED child_viewport
    /\ UNCHANGED <<size, actual_rect, child_size, held, propagate_pointer_wheel,
                   vertical_scroll_as_horizontal, scroll_bar_style>>

EnsureVisible == \E rect \in VisibleRects : EnsureVisibleOf(rect)

\* a ScrollDelta that takes its delta for the new origin
ScrollDeltaCandidate_Absolute(delta) == WithOrigin(child_viewport, delta)
\* lines 173-174
ScrollDeltaCandidate(delta) ==
    WithOrigin(child_viewport, PtAdd(RectOrigin(child_viewport), delta))

ScrollDeltaOf(delta) ==
    /\ Running
    /\ clamp_child_viewport(ScrollDeltaCandidate(delta), Command("ScrollDelta", delta))
    /\ UNCHANGED <<size, actual_rect, child_size, held, propagate_pointer_wheel,
                   vertical_scroll_as_horizontal, scroll_bar_style>>

ScrollDelta == \E delta \in ScrollDeltas : ScrollDeltaOf(delta)

\* line 178
ScrollToCandidate(origin) == WithOrigin(child_viewport, origin)

ScrollToOf(origin) ==
    /\ Running
    /\ clamp_child_viewport(ScrollToCandidate(origin), Command("ScrollTo", origin))
    /\ UNCHANGED <<size, actual_rect, child_size, held, propagate_pointer_wheel,
                   vertical_scroll_as_horizontal, scroll_bar_style>>

ScrollTo == \E origin \in ScrollTargets : ScrollToOf(origin)

HiddenBar ==
    \E hide \in BOOLEAN :
        /\ Running
        /\ scroll_bar_style' = [scroll_bar_style EXCEPT !.hide = hide]
        /\ out' = Command("HiddenBar", hide)
        /\ UNCHANGED <<size, actual_rect, child_size, child_viewport, held,
                       propagate_pointer_wheel, vertical_scroll_as_horizontal>>

PropagatePointerWheel ==
    \E value \in BOOLEAN :
        /\ Running
        /\ propagate_pointer_wheel' = value
        /\ out' = Command("PropagatePointerWheel", value)
        /\ UNCHANGED <<size, actual_rect, child_size, child_viewport, held,
                       vertical_scroll_as_horizontal, scroll_bar_style>>

VerticalScrollAsHorizontal ==
    \E value \in BOOLEAN :
        /\ Running
        /\ vertical_scroll_as_horizontal' = value
        /\ out' = Command("VerticalScrollAsHorizontal", value)
        /\ UNCHANGED <<size, actual_rect, child_size, child_viewport, held,
                       propagate_pointer_wheel, scroll_bar_style>>

(***************************************************************************)
(* View::event                                                             *)
(***************************************************************************)
\* the event collaborator sends a pointer-down to the view under the pointer
UnderPointer(pos) == RectContains(Rc(F(0), F(0), size.width, size.height), pos)

\* lines 717-721: the handler passes the event on to the child (child: the
\* child was sent it and handled it) and returns true when the child handled it
ToChild(op, child) == Out(op, child, 0, TRUE, FALSE)

\* a bar held, after a click on its track, at the origin the click found
HeldAfterClick_StaleOrigin(tag, offset) ==
    [tag |-> tag, offset |-> offset, initial |-> RectOrigin(child_viewport)]
\* lines 648-656 and 667-675: the bar is held at the origin the click left
HeldAfterClick(tag, offset) ==
    [tag |-> tag, offset |-> offset, initial |-> RectOrigin(child_viewport')]

\* the horizontal bar looked at first
BarUnder_HorizontalFirst(pos) ==
    LET cpos == PtAdd(pos, RectOrigin(child_viewport)) IN
    IF point_within_horizontal_bar(cpos)
    THEN IF point_hits_horizontal_bar(cpos)
         THEN <<"Horizontal", "thumb">> ELSE <<"Horizontal", "track">>
    ELSE IF point_within_vertical_bar(cpos)
    THEN IF point_hits_vertical_bar(cpos) THEN <<"Vertical", "thumb">> ELSE <<"Vertical", "track">>
    ELSE <<"None", "none">>

\* lines 633-676: what the scrollbars make of a primary pointer-down at pos, bars
\* not hidden: "thumb" and "track" of the vertical or the horizontal bar, or "none"
BarUnder(pos) ==
    LET cpos == PtAdd(pos, RectOrigin(child_viewport)) IN
    IF point_within_vertical_bar(cpos)
    THEN IF point_hits_vertical_bar(cpos) THEN <<"Vertical", "thumb">> ELSE <<"Vertical", "track">>
    ELSE IF point_within_horizontal_bar(cpos)
    THEN IF point_hits_horizontal_bar(cpos)
         THEN <<"Horizontal", "thumb">> ELSE <<"Horizontal", "track">>
    ELSE <<"None", "none">>

\* a pointer-down the scrollbars take: the drag it starts, with the page jump of
\* a click on the track before it
PointerDownOnBar(pos, bar) ==
    LET scroll_offset == RectOrigin(child_viewport)
        taken == Out("PointerDown", TRUE, 0, FALSE, TRUE)
        offset == IF bar[1] = "Vertical" THEN pos.y ELSE pos.x
    IN  IF bar[2] = "thumb"
        THEN /\ held' = [tag |-> bar[1], offset |-> offset, initial |-> scroll_offset]
             /\ out' = taken
             /\ UNCHANGED child_viewport
        ELSE /\ clamp_child_viewport(IF bar[1] = "Vertical" THEN ClickVerticalCandidate(pos)
                                     ELSE ClickHorizontalCandidate(pos), taken)
             /\ held' = HeldAfterClick(bar[1], offset)

\* a pointer-down that lets go of the bars also while they are hidden
PointerDownAt_IgnoresHide(pos, primary, child) ==
    /\ Running
    /\ UnderPointer(pos)
    /\ IF primary
       THEN IF BarUnder(pos)[1] # "None"
            THEN PointerDownOnBar(pos, BarUnder(pos))
            ELSE /\ held' = HeldNone
                 /\ out' = ToChild("PointerDown", child)
                 /\ UNCHANGED child_viewport
       ELSE /\ out' = ToChild("PointerDown", child)
            /\ UNCHANGED <<held, child_viewport>>
    /\ UNCHANGED <<size, actual_rect, child_size, propagate_pointer_wheel,
                   vertical_scroll_as_horizontal, scroll_bar_style>>

PointerDownAt(pos, primary, child) ==
    /\ Running
    /\ UnderPointer(pos)
    /\ IF ~scroll_bar_style.hide /\ primary
       THEN IF BarUnder(pos)[1] # "None"
            THEN PointerDownOnBar(pos, BarUnder(pos))
            ELSE /\ held' = HeldNone
                 /\ out' = ToChild("PointerDown", child)
                 /\ UNCHANGED child_viewport
       ELSE /\ out' = ToChild("PointerDown", child)
            /\ UNCHANGED <<held, child_viewport>>
    /\ UNCHANGED <<size, actual_rect, child_size, propagate_pointer_wheel,
                   vertical_scroll_as_horizontal, scroll_bar_style>>

PointerDown ==
    \E pos \in PointerPositions : \E primary \in BOOLEAN, child \in BOOLEAN :
        PointerDownAt(pos, primary, child)

\* a pointer-up that leaves the bar held
PointerUp_KeepsHeld ==
    \E child \in BOOLEAN :
        /\ Running
        /\ out' = ToChild("PointerUp", child)
        /\ UNCHANGED <<size, actual_rect, child_size, child_viewport, held,
                       propagate_pointer_wheel, vertical_scroll_as_horizontal,
                       scroll_bar_style>>

PointerUp ==
    \E child \in BOOLEAN :
        /\ Running
        /\ held' = HeldNone
        /\ out' = ToChild("PointerUp", child)
        /\ UNCHANGED <<size, actual_rect, child_size, child_viewport,
                       propagate_pointer_wheel, vertical_scroll_as_horizontal,
                       scroll_bar_style>>

\* lines 684-701: the candidate a pointer-move at pos hands to clamp while a bar is held
DragCandidate(pos) ==
    LET viewport_size == RectSize(child_viewport)
        content_size == child_size
        scale_y == FDiv(viewport_size.height, content_size.height)
        y == FAdd(held.initial.y, FDiv(FSub(pos.y, held.offset), scale_y))
        scale_x == FDiv(viewport_size.width, content_size.width)
        x == FAdd(held.initial.x, FDiv(FSub(pos.x, held.offset), scale_x))
    IN  IF held.tag = "Vertical"
        THEN WithOrigin(child_viewport, Pt(held.initial.x, y))
        ELSE WithOrigin(child_viewport, Pt(x, held.initial.y))

\* a drag that goes on moving the viewport while the bars are hidden
PointerMoveTo_IgnoresHide(pos, child) ==
    /\ Running
    /\ IF are_bars_held
       THEN clamp_child_viewport(DragCandidate(pos), ToChild("PointerMove", child))
       ELSE /\ out' = ToChild("PointerMove", child)
            /\ UNCHANGED child_viewport
    /\ UNCHANGED <<size, actual_rect, child_size, held, propagate_pointer_wheel,
                   vertical_scroll_as_horizontal, scroll_bar_style>>

PointerMoveTo(pos, child) ==
    LET cpos == PtAdd(pos, RectOrigin(child_viewport)) IN
    /\ Running
    /\ IF ~scroll_bar_style.hide /\ are_bars_held
       THEN clamp_child_viewport(DragCandidate(pos), ToChild("PointerMove", child))
       ELSE /\ out' = IF /\ ~scroll_bar_style.hide
                         /\ \/ point_within_vertical_bar(cpos)
                            \/ point_within_horizontal_bar(cpos)
                      THEN Out("PointerMove", TRUE, 0, FALSE, FALSE)
                      ELSE ToChild("PointerMove", child)
            /\ UNCHANGED child_viewport
    /\ UNCHANGED <<size, actual_rect, child_size, held, propagate_pointer_wheel,
                   vertical_scroll_as_horizontal, scroll_bar_style>>

PointerMove == \E pos \in PointerPositions, child \in BOOLEAN : PointerMoveTo(pos, child)

\* a wheel that exchanges the components of every delta when the flag is set
WheelDelta_AlwaysSwap(delta) ==
    IF vertical_scroll_as_horizontal THEN Pt(delta.y, delta.x) ELSE delta
\* lines 731-736
WheelDelta(delta) ==
    IF vertical_scroll_as_horizontal /\ FEq(delta.x, F(0)) /\ FNe(delta.y, F(0))
    THEN Pt(delta.y, delta.x) ELSE delta

\* line 737
WheelCandidate(delta) == RectTranslate(child_viewport, WheelDelta(delta))

\* a wheel event reported handled whatever the flag
WheelHandled_Always == TRUE

\* line 738: what the handler returns for a wheel event it has applied
WheelHandled == ~propagate_pointer_wheel

\* lines 717-739: the child first, then a listener registered for the wheel
\* event (listener: there is one and it handled the event), then the scroll
PointerWheelBy(delta, child, listener) ==
    /\ Running
    /\ IF child \/ listener
       THEN /\ out' = Out("PointerWheel", TRUE, 0, TRUE, FALSE)
            /\ UNCHANGED child_viewport
       ELSE clamp_child_viewport(WheelCandidate(delta),
                Out("PointerWheel", WheelHandled, 0, TRUE, FALSE))
    /\ UNCHANGED <<size, actual_rect, child_size, held, propagate_pointer_wheel,
                   vertical_scroll_as_horizontal, scroll_bar_style>>

PointerWheel ==
    \E delta \in WheelDeltas, child \in BOOLEAN, listener \in BOOLEAN :
        PointerWheelBy(delta, child, listener)

Next ==
    \/ compute_layout
    \/ EnsureVisible
    \/ ScrollDelta
    \/ ScrollTo
    \/ HiddenBar
    \/ PropagatePointerWheel
    \/ VerticalScrollAsHorizontal
    \/ PointerDown
    \/ PointerUp
    \/ PointerMove
    \/ PointerWheel

Spec == Init /\ [][Next]_vars

(***************************************************************************)
(* The geometry alone: the view driven only by layout passes and ScrollTo   *)
(* commands, over a wider range of boxes, content sizes and candidate       *)
(* origins.  clamp_child_viewport and the scrollbar geometry are functions  *)
(* of this state.                                                           *)
(***************************************************************************)
GeometryBoxes == {Sz(120, 100), Sz(120, 0)}

GeometryContents == {0, 50, 100, 150, 1000}

GeometryLayouts ==
    {[size |-> b, style |-> PaddedStyle, measure |-> Some(Sz(F(w), F(h)))] :
        b \in GeometryBoxes, w \in GeometryContents, h \in GeometryContents}
    \cup {[size |-> Sz(120, 100), style |-> PaddedStyle, measure |-> None]}

GeometryCandidates == {-50, 40, 950}

GeometryTargets == {Pt(F(x), F(y)) : x \in GeometryCandidates, y \in GeometryCandidates}

GeometryLayout == \E l \in GeometryLayouts : LayoutPass(l.size, l.style, l.measure)

GeometryScrollTo == \E origin \in GeometryTargets : ScrollToOf(origin)

GeometryNext == GeometryLayout \/ GeometryScrollTo

GeometrySpec == Init /\ [][GeometryNext]_vars

(***************************************************************************)
(* The wheel alone: the view driven only by layout passes, the two flags   *)
(* the wheel handling reads and wheel events of a few lines, over content  *)
(* a little larger than the viewport.                                      *)
(***************************************************************************)
WheelLayouts ==
    {[size |-> Sz(120, 100), style |-> PaddedStyle, measure |-> Some(Sz(F(150), F(140)))],
     [size |-> Sz(120, 100), style |-> PaddedStyle, measure |-> Some(Sz(F(150), F(50)))]}

WheelSteps == {Pt(F(0), F(-20)), Pt(F(0), F(20)), Pt(F(30), F(0)), Pt(F(30), F(-20))}

WheelLayout == \E l \in WheelLayouts : LayoutPass(l.size, l.style, l.measure)

WheelEvent ==
    \E delta \in WheelSteps : \E child \in BOOLEAN, listener \in BOOLEAN :
        PointerWheelBy(delta, child, listener)

WheelNext ==
    \/ WheelLayout
    \/ PropagatePointerWheel
    \/ VerticalScrollAsHorizontal
    \/ WheelEvent

WheelSpec == Init /\ [][WheelNext]_vars

(***************************************************************************)
(* The clicks alone: the view driven only by layout passes, primary        *)
(* pointer-downs at several places along the two bars and pointer-ups.     *)
(***************************************************************************)
ClickPositions ==
    {Pt(F(95), F(25)), Pt(F(95), F(95)), Pt(F(75), F(95)), Pt(F(25), F(95)), Pt(F(5), F(95)),
     Pt(F(5), F(5))}

ClickDown == \E pos \in ClickPositions : \E child \in BOOLEAN : PointerDownAt(pos, TRUE, child)

ClickNext ==
    \/ compute_layout
    \/ ClickDown
    \/ PointerUp

ClickSpec == Init /\ [][ClickNext]_vars

(***************************************************************************)
(* The thumbs' edges: the view driven only by layout passes, primary       *)
(* pointer-downs at places that come to lie on the edges of the thumbs and *)
(* inside them, and pointer-ups.                                           *)
(***************************************************************************)
EdgePositions ==
    {Pt(F(95), F(95)), Pt(F(95), F(80)), Pt(F(80), F(90)), Pt(F(100), F(90)), Pt(F(95), F(20)),
     Pt(F(0), F(90)), Pt(F(10), F(90)), Pt(F(5), F(80))}

EdgeDown == \E pos \in EdgePositions : \E child \in BOOLEAN : PointerDownAt(pos, TRUE, child)

EdgeNext ==
    \/ compute_layout
    \/ EdgeDown
    \/ PointerUp

EdgeSpec == Init /\ [][EdgeNext]_vars

(***************************************************************************)
(* The commands alone: the view driven only by layout passes and the        *)
(* ScrollState commands, with a ScrollDelta that does not reach the end of  *)
(* the content in one step.                                                *)
(***************************************************************************)
CommandDeltas == ScrollDeltas \cup {Pt(F(450), F(450))}

CommandScrollDelta == \E delta \in CommandDeltas : ScrollDeltaOf(delta)

CommandNext ==
    \/ compute_layout
    \/ EnsureVisible
    \/ CommandScrollDelta
    \/ ScrollTo
    \/ HiddenBar
    \/ PropagatePointerWheel
    \/ VerticalScrollAsHorizontal

CommandSpec == Init /\ [][CommandNext]_vars

(***************************************************************************)
(* The viewport invariant                                                  *)
(***************************************************************************)
\* one axis of the invariant: the origin is 0 when the viewport is at least as
\* long as the content, and within [0, content - viewport] otherwise
OriginInRange(origin, viewport_length, content_length) ==
    IF FGe(viewport_length, content_length) THEN FEq(origin, F(0))
    ELSE FLe(F(0), origin) /\ FLe(origin, FSub(content_length, viewport_length))

\* C1: after every completed stimulus the stored viewport has the size of
\* actual_rect and, on each axis, its origin is 0 when the viewport is at least
\* as long as the content and lies in [0, content - viewport] otherwise.
C1_ViewportInvariant ==
    /\ FEq(RectWidth(child_viewport), RectWidth(actual_rect))
    /\ FEq(RectHeight(child_viewport), RectHeight(actual_rect))
    /\ OriginInRange(child_viewport.x0, RectWidth(child_viewport), child_size.width)
    /\ OriginInRange(child_viewport.y0, RectHeight(child_viewport), child_size.height)

(***************************************************************************)
(* The clamp as a function of the candidate (GeometrySpec)                 *)
(***************************************************************************)
\* the origin the clamp is to give one axis
ClampFormula(candidate, viewport_length, content_length) ==
    IF FGe(viewport_length, content_length) THEN F(0)
    ELSE FMax(F(0), FMin(candidate, FSub(content_length, viewport_length)))

\* C2: clamp computes each axis on its own as 0 when the viewport is at least as
\* long as the content and as max(0, min(candidate, content - viewport))
\* otherwise; the result lies in [0, content - viewport] when
\* content >= viewport > 0.
C2_ClampFormula ==
    [][\A origin \in GeometryTargets :
          (out'.op = "ScrollTo" /\ ScrollToOf(origin)) =>
              LET width == RectWidth(actual_rect)
                  height == RectHeight(actual_rect)
              IN  /\ child_viewport'.x0 = ClampFormula(origin.x, width, child_size.width)
                  /\ child_viewport'.y0 = ClampFormula(origin.y, height, child_size.height)
                  /\ (FGe(child_size.width, width) /\ FGt(width, F(0))) =>
                        /\ FLe(F(0), child_viewport'.x0)
                        /\ FLe(child_viewport'.x0, FSub(child_size.width, width))
                  /\ (FGe(child_size.height, height) /\ FGt(height, F(0))) =>
                        /\ FLe(F(0), child_viewport'.y0)
                        /\ FLe(child_viewport'.y0, FSub(child_size.height, height))]_vars

\* a ScrollTo that the clamp cut to the far end on one axis and pinned to 0 on
\* the other
C2_Witness ==
    /\ out.op = "ScrollTo"
    /\ out.onscroll # <<>>
    /\ child_size = Sz(F(1000), F(50))
    /\ RectSize(actual_rect) = Sz(F(100), F(100))
    /\ child_viewport.x0 = F(900)
    /\ child_viewport.y0 = F(0)

\* C3: clamp(clamp(x)) = clamp(x) for every candidate x, and clamping the same
\* candidate a second time leaves the viewport as it is and makes no call
\* (set_viewport, request_layout, on_scroll).
C3_ClampIdempotent ==
    [][\A origin \in GeometryTargets :
          (out'.op = "ScrollTo" /\ ScrollToOf(origin)) =>
              /\ \A once \in {ClampedViewport(ScrollToCandidate(origin))} :
                    ClampedViewport(once) = once
              /\ \A again \in {Clamp(actual_rect, child_size,
                                      WithOrigin(child_viewport', origin))} :
                    /\ StoreCalls(child_viewport', again) = <<>>
                    /\ Stored(child_viewport', again) = child_viewport']_vars

\* a ScrollTo to where the viewport already is, at the far end of the content
C3_Witness ==
    /\ out.op = "ScrollTo"
    /\ out.onscroll = <<>>
    /\ out.request_layout = 1
    /\ child_viewport.x0 = F(900)
    /\ child_viewport.y0 = F(40)

(***************************************************************************)
(* on_scroll                                                               *)
(***************************************************************************)
\* the stimuli that never reach clamp_child_viewport
NoClampOps == {"HiddenBar", "PropagatePointerWheel", "VerticalScrollAsHorizontal", "PointerUp"}

\* C4: a stimulus calls on_scroll once, with the viewport it stored, when it
\* changes the stored viewport, and not at all when it leaves the viewport as
\* it was; the flag commands and pointer-up never call it.  So the calls of
\* on_scroll are as many as the changes of the stored viewport.
C4_OnScrollOncePerChange ==
    [][/\ Len(out'.onscroll) = (IF child_viewport' # child_viewport THEN 1 ELSE 0)
       /\ \A i \in 1..Len(out'.onscroll) : out'.onscroll[i] = child_viewport'
       /\ out'.op \in NoClampOps => out'.onscroll = <<>>]_vars

(***************************************************************************)
(* pan_to_visible                                                          *)
(***************************************************************************)
\* inner lies within outer, edges on edges allowed
RectInside(inner, outer) ==
    /\ FLe(outer.x0, inner.x0) /\ FLe(inner.x0, inner.x1) /\ FLe(inner.x1, outer.x1)
    /\ FLe(outer.y0, inner.y0) /\ FLe(inner.y0, inner.y1) /\ FLe(inner.y1, outer.y1)

\* C5: pan_to_visible(rect) of a rect that lies within the viewport, edges on
\* the viewport's edges included, leaves the viewport as it is and does not call
\* on_scroll.
C5_PanInsideNoOp ==
    [][out'.op = "EnsureVisible" =>
          \A rect \in VisibleRects :
              (EnsureVisibleOf(rect) /\ RectInside(rect, child_viewport)) =>
                  /\ child_viewport' = child_viewport
                  /\ out'.onscroll = <<>>
                  /\ ~out'.panic]_vars

\* an EnsureVisible of the rect whose four edges are the viewport's
C5_Witness ==
    /\ out.op = "EnsureVisible"
    /\ out.onscroll = <<>>
    /\ ~out.panic
    /\ child_viewport = Rc(F(900), F(900), F(1000), F(1000))

\* the content extent
ContentExtent == Rc(F(0), F(0), child_size.width, child_size.height)

\* rect cut to at most the size of the viewport, its origin corner kept
Truncated(rect, viewport) ==
    Rc(rect.x0, rect.y0,
       FAdd(rect.x0, FMin(RectWidth(rect), RectWidth(viewport))),
       FAdd(rect.y0, FMin(RectHeight(rect), RectHeight(viewport))))

\* the least displacement of [vmin, vmax] that brings [near, far] into it
LeastDisplacement(near, far, vmin, vmax) ==
    IF FLt(near, vmin) THEN FSub(near, vmin)
    ELSE IF FGt(far, vmax) THEN FSub(far, vmax)
    ELSE F(0)

\* C6: after pan_to_visible(rect) of a rect within the content extent, the rect
\* cut to the viewport's size lies within the new viewport, and each axis moved
\* by the least displacement: near - viewport_min when the near edge is before
\* the viewport, far - viewport_max when the far edge is past it, 0 otherwise.
C6_PanMinimal ==
    [][out'.op = "EnsureVisible" =>
          \A rect \in VisibleRects :
              (EnsureVisibleOf(rect) /\ RectInside(rect, ContentExtent)) =>
                  \A t \in {Truncated(rect, child_viewport)} :
                      /\ RectInside(t, child_viewport')
                      /\ child_viewport'.x0 =
                            FAdd(child_viewport.x0,
                                 LeastDisplacement(t.x0, t.x1, child_viewport.x0, child_viewport.x1))
                      /\ child_viewport'.y0 =
                            FAdd(child_viewport.y0,
                                 LeastDisplacement(t.y0, t.y1, child_viewport.y0, child_viewport.y1))]_vars

(***************************************************************************)
(* The scrollbar geometry (GeometrySpec)                                   *)
(***************************************************************************)
\* the positions of the pointer in the coordinates of the content
ContentPositions == {PtAdd(pos, RectOrigin(child_viewport)) : pos \in PointerPositions}

\* C7: on each axis calc_bar_bounds gives no bar exactly when the viewport is at
\* least as long as the content; so where there is a bar the divisors of
\* percent_visible and percent_scrolled are not zero, and where there is none
\* no point is within the band or hits the thumb.
C7_BarAbsent ==
    /\ (calc_vertical_bar_bounds = None) <=>
            FGe(RectHeight(child_viewport), child_size.height)
    /\ (calc_horizontal_bar_bounds = None) <=>
            FGe(RectWidth(child_viewport), child_size.width)
    /\ calc_vertical_bar_bounds # None =>
            /\ ~IsZero(child_size.height)
            /\ ~IsZero(FSub(child_size.height, RectHeight(child_viewport)))
    /\ calc_horizontal_bar_bounds # None =>
            /\ ~IsZero(child_size.width)
            /\ ~IsZero(FSub(child_size.width, RectWidth(child_viewport)))
    /\ calc_vertical_bar_bounds = None =>
            \A pos \in ContentPositions :
                ~point_within_vertical_bar(pos) /\ ~point_hits_vertical_bar(pos)
    /\ calc_horizontal_bar_bounds = None =>
            \A pos \in ContentPositions :
                ~point_within_horizontal_bar(pos) /\ ~point_hits_horizontal_bar(pos)

\* the content exactly as high as the viewport, and wider: no vertical bar, a
\* horizontal one
C7_Witness ==
    /\ RectSize(child_viewport) = Sz(F(100), F(100))
    /\ child_size = Sz(F(150), F(100))
    /\ calc_vertical_bar_bounds = None
    /\ calc_horizontal_bar_bounds # None

\* max(minimum, ceil(percent_visible * viewport_length)) in integers, for a
\* finite viewport_length and a content_length above 0
ThumbLength(minimum, viewport_length, content_length) ==
    LET n == viewport_length[1] * viewport_length[1] * content_length[2]
        d == viewport_length[2] * viewport_length[2] * content_length[1]
    IN  FMax(minimum, F(-((-n) \div d)))

\* the lengths of the thumbs for a content of w x h behind the viewport
VerticalLength(h) ==
    RectHeight(VerticalBarBounds(child_viewport, Sz(child_size.width, F(h)), Thickness)[1])

HorizontalLength(w) ==
    RectWidth(HorizontalBarBounds(child_viewport, Sz(F(w), child_size.height), Thickness)[1])

C9_PointerUpIdle ==
    [][/\ out'.op = "PointerUp" => held' = HeldNone
       /\ (out.op = "PointerUp" /\ out'.op = "PointerMove") =>
             /\ child_viewport' = child_viewport
             /\ out'.onscroll = <<>>]_vars

\* a pointer-up with the viewport scrolled and the bars hidden
C9_Witness ==
    /\ out.op = "PointerUp"
    /\ held = HeldNone
    /\ scroll_bar_style.hide
    /\ child_viewport.y0 = F(900)

\* C10 as stated: a held bar stays held, on the same axis, through every
\* stimulus but a pointer-up.
C10_DragUntilPointerUp ==
    [][(are_bars_held /\ out'.op # "PointerUp") => held'.tag = held.tag]_vars

\* C10 as amended: a held bar stays held as it is through every stimulus but a
\* pointer-up and a pointer-down of the primary button while the bars are not
\* hidden.
C10_DragUntilUpOrPrimaryDown ==
    [][are_bars_held =>
          \/ held' = held
          \/ out'.op = "PointerUp"
          \/ /\ out'.op = "PointerDown"
             /\ ~scroll_bar_style.hide
             /\ \E pos \in PointerPositions, child \in BOOLEAN :
                    PointerDownAt(pos, TRUE, child)]_vars

\* a pointer-down that went to the child while a bar stayed held
C10_Witness ==
    /\ out.op = "PointerDown"
    /\ out.offered
    /\ held.tag = "Vertical"

(***************************************************************************)
(* C11                                                                     *)
(***************************************************************************)
\* the origin clamp gives for a candidate origin p, in the current sizes
ClampedOrigin(p) ==
    Pt(ClampFormula(p.x, RectWidth(actual_rect), child_size.width),
       ClampFormula(p.y, RectHeight(actual_rect), child_size.height))

\* C11: the step of ScrollTo(p) leaves the viewport's origin at clamp(p) and the
\* step of ScrollDelta(d) leaves it at clamp(origin before the step + d); with
\* content 1000x1000 and viewport 100x100, ScrollTo((950, 950)) leaves the
\* origin at (900, 900).
C11_ScrollToAndDelta ==
    [][/\ out'.op = "ScrollTo" =>
              \A p \in {out'.arg[1]} :
                  /\ ScrollToOf(p)
                  /\ RectOrigin(child_viewport') = ClampedOrigin(p)
                  /\ (/\ p = Pt(F(950), F(950))
                      /\ child_size = Sz(F(1000), F(1000))
                      /\ RectSize(actual_rect) = Sz(F(100), F(100)))
                     => RectOrigin(child_viewport') = Pt(F(900), F(900))
       /\ out'.op = "ScrollDelta" =>
              \A d \in {out'.arg[1]} :
                  /\ ScrollDeltaOf(d)
                  /\ RectOrigin(child_viewport')
                         = ClampedOrigin(PtAdd(RectOrigin(child_viewport), d))]_vars

\* ScrollTo((950, 950)) has been applied to content 1000x1000 in a viewport
\* 100x100
C11_Witness ==
    /\ out.op = "ScrollTo"
    /\ out.arg = <<Pt(F(950), F(950))>>
    /\ child_size = Sz(F(1000), F(1000))
    /\ RectSize(actual_rect) = Sz(F(100), F(100))
    /\ RectOrigin(child_viewport) = Pt(F(900), F(900))

\* a ScrollDelta has moved the origin by its delta, short of the content's end
C11_DeltaWitness ==
    /\ out.op = "ScrollDelta"
    /\ out.arg = <<Pt(F(450), F(450))>>
    /\ RectOrigin(child_viewport) = Pt(F(450), F(450))

(***************************************************************************)
(* C12                                                                     *)
(***************************************************************************)
CommandOps ==
    {"EnsureVisible", "ScrollDelta", "ScrollTo", "HiddenBar", "PropagatePointerWheel",
     "VerticalScrollAsHorizontal"}

\* the step delivers a command of one of ops, with the value of the command
\* delivered by the step before it
SameCommandAgain(ops) ==
    /\ out.op \in ops
    /\ out'.op = out.op
    /\ out'.arg = out.arg

\* the viewport, the flags and the drag state are what they were
ControllerUnchanged ==
    UNCHANGED <<child_viewport, held, propagate_pointer_wheel,
                vertical_scroll_as_horizontal, scroll_bar_style>>

\* C12 as stated: a command of any variant delivered a second time, right after
\* the first, leaves the viewport, the flags and the drag state as the first
\* delivery left them.
C12_EveryCommandIdempotent ==
    [][SameCommandAgain(CommandOps) => ControllerUnchanged]_vars

\* C12, amended: a command of any variant but ScrollDelta delivered a second
\* time, right after the first, leaves the viewport, the flags and the drag state
\* as the first delivery left them; the second ScrollDelta(d) adds d once more.
C12_IdempotentButScrollDelta ==
    [][/\ SameCommandAgain(CommandOps \ {"ScrollDelta"}) => ControllerUnchanged
       /\ SameCommandAgain({"ScrollDelta"}) =>
              /\ RectOrigin(child_viewport')
                     = ClampedOrigin(PtAdd(RectOrigin(child_viewport), out'.arg[1]))
              /\ UNCHANGED <<held, propagate_pointer_wheel,
                             vertical_scroll_as_horizontal, scroll_bar_style>>]_vars

\* an EnsureVisible that found its rect in view and a viewport it had to move
\* to get there: the command has been delivered before
C12_Witness ==
    /\ out.op = "EnsureVisible"
    /\ out.arg = <<Rc(F(900), F(900), F(1000), F(1000))>>
    /\ child_viewport = Rc(F(900), F(900), F(1000), F(1000))
    /\ out.onscroll = <<>>

(***************************************************************************)
(* C13                                                                     *)
(***************************************************************************)
\* the step is a wheel event of delta that neither the child nor a listener
\* handled
WheelReaches(delta) == out'.op = "PointerWheel" /\ PointerWheelBy(delta, FALSE, FALSE)

\* the step leaves the origin at clamp(origin before the step + applied)
WheelApplies(applied) ==
    RectOrigin(child_viewport') = ClampedOrigin(PtAdd(RectOrigin(child_viewport), applied))

\* C13: a wheel event that reaches the controller leaves the origin at
\* clamp(origin + delta), with the components of delta exchanged when the
\* axis-swap flag is set, the horizontal component is 0 and the vertical one is
\* not: (0, -20) is applied as (-20, 0) with the flag set, and the delta is
\* applied as it is with the flag clear or a horizontal component other than 0.
C13_WheelDelta ==
    [][\A delta \in WheelSteps :
          WheelReaches(delta) =>
              /\ (vertical_scroll_as_horizontal /\ delta.x = F(0) /\ delta.y # F(0))
                     => WheelApplies(Pt(delta.y, delta.x))
              /\ (vertical_scroll_as_horizontal /\ delta = Pt(F(0), F(-20)))
                     => WheelApplies(Pt(F(-20), F(0)))
              /\ (~vertical_scroll_as_horizontal \/ delta.x # F(0))
                     => WheelApplies(delta)]_vars

\* a wheel event has moved the viewport 20 to the left, which only the delta
\* (0, -20) with its components exchanged does
C13_Witness ==
    /\ out.op = "PointerWheel"
    /\ vertical_scroll_as_horizontal
    /\ child_size = Sz(F(150), F(140))
    /\ RectOrigin(child_viewport) = Pt(F(10), F(0))
    /\ out.onscroll # <<>>

(***************************************************************************)
(* C14                                                                     *)
(***************************************************************************)
\* C14: a wheel event that reaches the controller's own handling is applied to
\* the viewport whatever the propagate-wheel flag is, and the handler reports
\* it handled exactly when the flag is false, whether or not the viewport
\* moved.
C14_WheelReport ==
    [][\A delta \in WheelSteps :
          WheelReaches(delta) =>
              /\ WheelApplies(WheelDelta(delta))
              /\ out'.ret = ~propagate_pointer_wheel]_vars

\* a wheel event has scrolled the viewport and is reported as not handled, the
\* propagate-wheel flag being set
C14_Witness ==
    /\ out.op = "PointerWheel"
    /\ propagate_pointer_wheel
    /\ out.onscroll # <<>>
    /\ ~out.ret

\* a wheel event that does not move the viewport, already at its limit, and is
\* reported as not handled
C14_AtLimit ==
    /\ out.op = "PointerWheel"
    /\ propagate_pointer_wheel
    /\ out.onscroll = <<>>
    /\ ~out.ret

(***************************************************************************)
(* C15                                                                     *)
(***************************************************************************)
PointerOps == {"PointerDown", "PointerUp", "PointerMove"}

\* a pointer at pos is on neither scrollbar: the bars are hidden, or pos is in
\* the band of no bar
OffTheBars(pos) == scroll_bar_style.hide \/ BarUnder(pos)[1] = "None"

\* outside a drag, an event that is not a scrollbar's is passed on to the child
OfferedOutsideDrag ==
    held = HeldNone =>
        /\ out'.op \in {"PointerUp", "PointerWheel"} => out'.offered
        /\ \A pos \in PointerPositions :
              OffTheBars(pos) =>
                  /\ \A child \in BOOLEAN :
                        (out'.op = "PointerMove" /\ PointerMoveTo(pos, child)) => out'.offered
                  /\ \A primary \in BOOLEAN, child \in BOOLEAN :
                        (out'.op = "PointerDown" /\ PointerDownAt(pos, primary, child))
                            => out'.offered

\* C15: a pointer event that arrives while a bar is held is not passed on to the
\* child; with no bar held, every pointer or wheel event that is not a
\* scrollbar's is passed on to the child.
C15_DragOwnsGesture ==
    [][/\ (held # HeldNone /\ out'.op \in PointerOps) => ~out'.offered
       /\ OfferedOutsideDrag]_vars

\* the events outside a drag alone
C15_OfferedOutsideDrag == [][OfferedOutsideDrag]_vars

(***************************************************************************)
(* C16                                                                     *)
(***************************************************************************)
\* C16: a step that changes the stored viewport, whatever the stimulus, and a
\* layout pass that measures a content size other than the one stored, calls
\* request_layout at least once in that step.
C16_RelayoutRequested ==
    [][(\/ child_viewport' # child_viewport
        \/ out'.op = "compute_layout" /\ child_size' # child_size)
          => out'.request_layout >= 1]_vars

\* a layout pass has measured another content size, left the viewport where it
\* was and requested a layout
C16_Witness ==
    /\ out.op = "compute_layout"
    /\ child_size = Sz(F(150), F(50))
    /\ out.set_viewport = <<>>
    /\ out.request_layout = 1

\* a pointer-move of a drag has moved the viewport and requested a layout
C16_DragWitness ==
    /\ out.op = "PointerMove"
    /\ out.set_viewport # <<>>
    /\ out.request_layout = 1

(***************************************************************************)
(* C17                                                                     *)
(***************************************************************************)
\* ceil((viewport_length - thumb_length - padding) * percent_scrolled), with
\* percent_scrolled = origin / (content_length - viewport_length)
ThumbOffset(origin, viewport_length, content_length, thumb_length, padding) ==
    FCeil(FMul(FSub(FSub(viewport_length, thumb_length), padding),
               FDiv(origin, FSub(content_length, viewport_length))))

\* the vertical thumb lies ThumbOffset along the track, with no padding
VerticalOffsetIs ==
    \A bar \in {calc_vertical_bar_bounds} :
        bar # None =>
            FSub(bar[1].y0, child_viewport.y0)
                = ThumbOffset(child_viewport.y0, RectHeight(child_viewport), child_size.height,
                              RectHeight(bar[1]), F(0))

\* the horizontal thumb lies ThumbOffset along the track, with the padding given
HorizontalOffsetIs(padding) ==
    \A bar \in {calc_horizontal_bar_bounds} :
        bar # None =>
            FSub(bar[1].x0, child_viewport.x0)
                = ThumbOffset(child_viewport.x0, RectWidth(child_viewport), child_size.width,
                              RectWidth(bar[1]), padding)

\* C17 as stated: on each axis with a bar the thumb's offset along the track is
\* ceil((viewport_length - thumb_length) * percent_scrolled), whether or not the
\* other axis has a bar.
C17_ThumbOffset == VerticalOffsetIs /\ HorizontalOffsetIs(F(0))

\* C17, amended: the vertical thumb's offset is
\* ceil((viewport_length - thumb_length) * percent_scrolled) whether or not
\* there is a horizontal bar; the horizontal thumb's offset is
\* ceil((viewport_length - thumb_length - p) * percent_scrolled), where p is the
\* bars' thickness when there is a vertical bar and 0 when there is none.
C17_ThumbOffsetWithPadding ==
    /\ VerticalOffsetIs
    /\ HorizontalOffsetIs(IF calc_vertical_bar_bounds # None THEN Thickness ELSE F(0))

\* both bars at the end of content 1000x1000 in the 100x100 viewport, thickness
\* 20: the horizontal thumb ends where the vertical bar begins
C17_Witness ==
    /\ child_size = Sz(F(1000), F(1000))
    /\ child_viewport = Rc(F(900), F(900), F(1000), F(1000))
    /\ calc_horizontal_bar_bounds = Some(Rc(F(970), F(980), F(980), F(1000)))
    /\ calc_vertical_bar_bounds = Some(Rc(F(980), F(980), F(1000), F(1000)))

(***************************************************************************)
(* C18                                                                     *)
(***************************************************************************)
\* the step is a primary pointer-down at pos with the bars not hidden
PrimaryDownOnShownBars(pos) ==
    /\ out'.op = "PointerDown"
    /\ ~scroll_bar_style.hide
    /\ \E child \in BOOLEAN : PointerDownAt(pos, TRUE, child)

\* the step ends holding the bar of tag, anchored at offset and at the origin the
\* step leaves, with the event consumed and the view made the active one
DragStarted(tag, offset) ==
    /\ held' = [tag |-> tag, offset |-> offset, initial |-> RectOrigin(child_viewport')]
    /\ out'.ret
    /\ ~out'.offered
    /\ out'.active

\* C18: a primary pointer-down with the bars not hidden at a position within the
\* band of a bar (the vertical one where the bands cross) ends with that bar
\* held, anchored at the pointer's coordinate on the bar's axis and at the
\* viewport's origin as it is after the event, the event consumed and the view
\* made active; when the position hits the thumb the viewport is unchanged.
C18_PointerDownStartsDrag ==
    [][\A pos \in PointerPositions :
          PrimaryDownOnShownBars(pos) =>
              \A cpos \in {PtAdd(pos, RectOrigin(child_viewport))} :
                  /\ point_within_vertical_bar(cpos) =>
                         /\ DragStarted("Vertical", pos.y)
                         /\ point_hits_vertical_bar(cpos) => UNCHANGED child_viewport
                  /\ (~point_within_vertical_bar(cpos) /\ point_within_horizontal_bar(cpos)) =>
                         /\ DragStarted("Horizontal", pos.x)
                         /\ point_hits_horizontal_bar(cpos) => UNCHANGED child_viewport]_vars

\* a click on the vertical track has moved the viewport and holds the bar at the
\* origin it moved to
C18_Witness ==
    /\ out.op = "PointerDown"
    /\ out.set_viewport # <<>>
    /\ held = HeldVertical(F(95), RectOrigin(child_viewport))
    /\ out.ret /\ out.active

\* a pointer-down on the horizontal thumb holds the bar and moves nothing
C18_ThumbWitness ==
    /\ out.op = "PointerDown"
    /\ out.set_viewport = <<>>
    /\ held = HeldHorizontal(F(5), RectOrigin(child_viewport))
    /\ out.ret /\ out.active

(***************************************************************************)
(* C19                                                                     *)
(***************************************************************************)
\* (click_position / viewport_length) * content_length - viewport_length / 2
PageJump(click_position, viewport_length, content_length) ==
    FSub(FMul(FDiv(click_position, viewport_length), content_length),
         FDiv(viewport_length, F(2)))

\* the step is a primary pointer-down at pos that BarUnder(pos) takes for a click
\* on the track of the bar of tag
TrackClick(pos, tag) ==
    /\ out'.op = "PointerDown"
    /\ ~scroll_bar_style.hide
    /\ BarUnder(pos) = <<tag, "track">>
    /\ \E child \in BOOLEAN : PointerDownAt(pos, TRUE, child)

\* the click leaves the origin of its axis at the clamp of PageJump and the
\* origin of the other axis where it was
ClickJumps(pos) ==
    /\ TrackClick(pos, "Vertical") =>
           /\ child_viewport'.y0 = ClampFormula(PageJump(pos.y, RectHeight(child_viewport),
                                                          child_size.height),
                                                 RectHeight(child_viewport), child_size.height)
           /\ child_viewport'.x0 = child_viewport.x0
    /\ TrackClick(pos, "Horizontal") =>
           /\ child_viewport'.x0 = ClampFormula(PageJump(pos.x, RectWidth(child_viewport),
                                                          child_size.width),
                                                 RectWidth(child_viewport), child_size.width)
           /\ child_viewport'.y0 = child_viewport.y0

\* the vertical thumb of viewport covers the position pos of the view along the
\* vertical axis
VerticalThumbCovers(viewport, pos) ==
    \A bar \in {VerticalBarBounds(viewport, child_size, Thickness)} :
        /\ bar # None
        /\ FLe(bar[1].y0, FAdd(pos.y, viewport.y0))
        /\ FLe(FAdd(pos.y, viewport.y0), bar[1].y1)

HorizontalThumbCovers(viewport, pos) ==
    \A bar \in {HorizontalBarBounds(viewport, child_size, Thickness)} :
        /\ bar # None
        /\ FLe(bar[1].x0, FAdd(pos.x, viewport.x0))
        /\ FLe(FAdd(pos.x, viewport.x0), bar[1].x1)

\* C19: a click on the track of a bar leaves the origin of the bar's axis at
\* clamp((click_position / viewport_length) * content_length
\* - viewport_length / 2) and the other axis's origin where it was, and the
\* thumb computed from the new origin covers the clicked position along the
\* axis.
C19_TrackClick ==
    [][\A pos \in ClickPositions :
          /\ ClickJumps(pos)
          /\ TrackClick(pos, "Vertical") => VerticalThumbCovers(child_viewport', pos)
          /\ TrackClick(pos, "Horizontal") => HorizontalThumbCovers(child_viewport', pos)]_vars

\* the claim without the horizontal thumb's covering the click when there is a
\* vertical bar too
C19_TrackClickButCorner ==
    [][\A pos \in ClickPositions :
          /\ ClickJumps(pos)
          /\ TrackClick(pos, "Vertical") => VerticalThumbCovers(child_viewport', pos)
          /\ (TrackClick(pos, "Horizontal") /\ calc_vertical_bar_bounds = None)
                 => HorizontalThumbCovers(child_viewport', pos)]_vars

(***************************************************************************)
(* C20                                                                     *)
(***************************************************************************)
\* the step is a pointer-move at pos while a bar is held and the bars are shown
DragMove(pos) ==
    /\ out'.op = "PointerMove"
    /\ held # HeldNone
    /\ ~scroll_bar_style.hide
    /\ \E child \in BOOLEAN : PointerMoveTo(pos, child)

\* clamp(origin_at_drag_start + (pointer_coordinate - anchor) / scale) with
\* scale = viewport_length / content_length
DragOrigin(start, coordinate, anchor, viewport_length, content_length) ==
    ClampFormula(FAdd(start, FDiv(FSub(coordinate, anchor),
                                  FDiv(viewport_length, content_length))),
                 viewport_length, content_length)

\* the sizes are such that a drag can have begun in them at the origin start
DragBeganInSizes(start, viewport_length, content_length) ==
    /\ FGt(viewport_length, F(0))
    /\ FLt(viewport_length, content_length)
    /\ OriginInRange(start, viewport_length, content_length)

\* the pointer-move at pos leaves the origin of the held bar's axis at
\* DragOrigin, and at the drag's first origin when pos is at the anchor
DragMoves(pos) ==
    /\ held.tag = "Vertical" =>
           /\ child_viewport'.y0 = DragOrigin(held.initial.y, pos.y, held.offset,
                                              RectHeight(child_viewport), child_size.height)
           /\ (/\ pos.y = held.offset
               /\ DragBeganInSizes(held.initial.y, RectHeight(child_viewport), child_size.height))
                  => child_viewport'.y0 = held.initial.y
    /\ held.tag = "Horizontal" =>
           /\ child_viewport'.x0 = DragOrigin(held.initial.x, pos.x, held.offset,
                                              RectWidth(child_viewport), child_size.width)
           /\ (/\ pos.x = held.offset
               /\ DragBeganInSizes(held.initial.x, RectWidth(child_viewport), child_size.width))
                  => child_viewport'.x0 = held.initial.x

\* C20: while a bar is held and the bars are shown, a pointer-move leaves the
\* origin of the bar's axis at clamp(origin_at_drag_start
\* + (pointer_coordinate - anchor) / scale), scale = viewport_length /
\* content_length, whatever moves came before; a pointer-move at the anchor
\* leaves the drag's first origin on that axis when the sizes are the ones the
\* drag began in.
C20_DragOrigin == [][\A pos \in PointerPositions : DragMove(pos) => DragMoves(pos)]_vars

\* the same for the pointer-moves that find a viewport longer than 0 on both
\* axes
C20_DragOriginInOpenViewport ==
    [][\A pos \in PointerPositions :
          (/\ DragMove(pos)
           /\ FGt(RectWidth(child_viewport), F(0))
           /\ FGt(RectHeight(child_viewport), F(0))) => DragMoves(pos)]_vars

(***************************************************************************)
(* C21                                                                     *)
(***************************************************************************)
\* C21: a pointer-move while a bar is held and the bars are shown leaves the
\* origin of the other axis what it was before the pointer-move, also after a
\* wheel event or a command has moved that axis since the drag began.
C21_OtherAxisFixed ==
    [][\A pos \in PointerPositions :
          DragMove(pos) =>
              /\ held.tag = "Vertical" => child_viewport'.x0 = child_viewport.x0
              /\ held.tag = "Horizontal" => child_viewport'.y0 = child_viewport.y0]_vars

\* what the pointer-move does instead: the other axis goes to the clamp of the
\* origin the drag began at
C21_OtherAxisAtDragStart ==
    [][\A pos \in PointerPositions :
          DragMove(pos) =>
              /\ held.tag = "Vertical" =>
                     child_viewport'.x0 = ClampAxis(held.initial.x, RectWidth(actual_rect),
                                                    child_size.width)
              /\ held.tag = "Horizontal" =>
                     child_viewport'.y0 = ClampAxis(held.initial.y, RectHeight(actual_rect),
                                                    child_size.height)]_vars

(***************************************************************************)
(* C22                                                                     *)
(***************************************************************************)
\* cpos, relative to the content, lies in the strip of the bars' thickness along
\* the far edge of the viewport where the vertical bar is
InVerticalBand(cpos) ==
    /\ calc_vertical_bar_bounds # None
    /\ FGe(cpos.x, FSub(FAdd(child_viewport.x0, RectWidth(child_viewport)), Thickness))
    /\ FLe(cpos.x, FAdd(child_viewport.x0, RectWidth(child_viewport)))

InHorizontalBand(cpos) ==
    /\ calc_horizontal_bar_bounds # None
    /\ FGe(cpos.y, FSub(FAdd(child_viewport.y0, RectHeight(child_viewport)), Thickness))
    /\ FLe(cpos.y, FAdd(child_viewport.y0, RectHeight(child_viewport)))

\* C22: a pointer-move while no bar is held changes neither the viewport nor
\* held; with the bars shown it is consumed, and not passed on to the child,
\* whenever its position relative to the content lies in the vertical or the
\* horizontal band.
C22_IdleMove ==
    [][\A pos \in PointerPositions :
          (/\ out'.op = "PointerMove"
           /\ held = HeldNone
           /\ \E child \in BOOLEAN : PointerMoveTo(pos, child)) =>
              /\ UNCHANGED <<child_viewport, held>>
              /\ out'.set_viewport = <<>> /\ out'.onscroll = <<>>
              /\ \A cpos \in {PtAdd(pos, RectOrigin(child_viewport))} :
                    (~scroll_bar_style.hide /\ (InVerticalBand(cpos) \/ InHorizontalBand(cpos)))
                        => (out'.ret /\ ~out'.offered)]_vars

\* a pointer-move with no bar held has been consumed without reaching the child,
\* the viewport away from the start of the content
C22_Witness ==
    /\ out.op = "PointerMove"
    /\ held = HeldNone
    /\ out.ret /\ ~out.offered
    /\ child_viewport.x0 = F(900)

(***************************************************************************)
(* C23                                                                     *)
(***************************************************************************)
\* p lies inside r and on none of its edges
StrictlyInside(r, p) == FLt(r.x0, p.x) /\ FLt(p.x, r.x1) /\ FLt(r.y0, p.y) /\ FLt(p.y, r.y1)

\* p lies in r or on its min edges, and not on its max edges
InsideOrOnMinEdge(r, p) == FLe(r.x0, p.x) /\ FLt(p.x, r.x1) /\ FLe(r.y0, p.y) /\ FLt(p.y, r.y1)

\* the step takes the pointer-down at pos for a click on the track of the bar of
\* tag: the origin of the bar's axis goes to the clamp of the page jump
JumpsTo(tag, pos) ==
    IF tag = "Vertical"
    THEN child_viewport'.y0 = ClampFormula(PageJump(pos.y, RectHeight(child_viewport),
                                                     child_size.height),
                                            RectHeight(child_viewport), child_size.height)
    ELSE child_viewport'.x0 = ClampFormula(PageJump(pos.x, RectWidth(child_viewport),
                                                     child_size.width),
                                            RectWidth(child_viewport), child_size.width)

\* the step takes the pointer-down for a grab of the thumb: nothing moves
Grabs == UNCHANGED child_viewport /\ out'.set_viewport = <<>>

\* the bar a primary pointer-down at cpos is for, <<tag, thumb rectangle>>, or
\* <<>> when it is for none
BarFor(cpos) ==
    IF InVerticalBand(cpos) THEN <<"Vertical", calc_vertical_bar_bounds[1]>>
    ELSE IF InHorizontalBand(cpos) THEN <<"Horizontal", calc_horizontal_bar_bounds[1]>>
    ELSE <<>>

\* C23 as stated: a pointer-down in a band is a thumb hit only strictly inside
\* the thumb's rectangle; on any edge of it, min or max, it is a click on the
\* track and makes the page jump.
C23_HitStrictlyInside ==
    [][\A pos \in EdgePositions :
          PrimaryDownOnShownBars(pos) =>
              \A cpos \in {PtAdd(pos, RectOrigin(child_viewport))} :
                  \A bar \in {BarFor(cpos)} :
                      bar # <<>> =>
                          /\ (IF bar[1] = "Vertical" THEN point_hits_vertical_bar(cpos)
                              ELSE point_hits_horizontal_bar(cpos))
                                 => StrictlyInside(bar[2], cpos)
                          /\ ~StrictlyInside(bar[2], cpos) => JumpsTo(bar[1], pos)]_vars

\* C23, amended: a pointer-down in a band is a thumb hit exactly when it lies in
\* the thumb's rectangle or on its min edges and not on its max edges; there it
\* grabs the thumb and moves nothing, elsewhere in the band it is a click on
\* the track and makes the page jump.
C23_HitHalfOpen ==
    [][\A pos \in EdgePositions :
          PrimaryDownOnShownBars(pos) =>
              \A cpos \in {PtAdd(pos, RectOrigin(child_viewport))} :
                  \A bar \in {BarFor(cpos)} :
                      bar # <<>> =>
                          /\ (IF bar[1] = "Vertical" THEN point_hits_vertical_bar(cpos)
                              ELSE point_hits_horizontal_bar(cpos))
                                 <=> InsideOrOnMinEdge(bar[2], cpos)
                          /\ InsideOrOnMinEdge(bar[2], cpos) => Grabs
                          /\ ~InsideOrOnMinEdge(bar[2], cpos) => JumpsTo(bar[1], pos)]_vars

\* a pointer-down on the min edge of the vertical thumb, at the end of the
\* content, has grabbed the thumb: a page jump would have gone to 750
C23_Witness ==
    /\ out.op = "PointerDown"
    /\ child_size = Sz(F(1000), F(1000))
    /\ held = HeldVertical(F(80), Pt(F(0), F(900)))
    /\ RectOrigin(child_viewport) = Pt(F(0), F(900))
    /\ out.set_viewport = <<>>

\* a pointer-down on the max edge of the vertical thumb, at the start of the
\* content, has made the page jump
C23_MaxEdgeWitness ==
    /\ out.op = "PointerDown"
    /\ child_size = Sz(F(1000), F(1000))
    /\ held = HeldVertical(F(20), Pt(F(0), F(150)))
    /\ out.set_viewport # <<>>

(***************************************************************************)
(* C24                                                                     *)
(***************************************************************************)
\* the viewport the step stores is the clamp of candidate
MovesTo(candidate) ==
    child_viewport' = Stored(child_viewport, ClampedViewport(candidate))

\* C24: while the bars are hidden a pointer-down or a pointer-move changes
\* neither the viewport nor held, so it starts no drag and no page jump, a drag
\* in progress stops moving the viewport and its held state is kept; a wheel
\* event that reaches the view and a ScrollTo or ScrollDelta command move the
\* viewport as they do with the bars shown.
C24_HiddenBars ==
    [][scroll_bar_style.hide =>
          /\ out'.op \in {"PointerDown", "PointerMove"} =>
                 /\ UNCHANGED <<child_viewport, held>>
                 /\ out'.set_viewport = <<>> /\ out'.onscroll = <<>> /\ ~out'.active
          /\ out'.op = "PointerWheel" =>
                 \A delta \in WheelDeltas :
                     PointerWheelBy(delta, FALSE, FALSE) => MovesTo(WheelCandidate(delta))
          /\ out'.op = "ScrollTo" => MovesTo(ScrollToCandidate(out'.arg[1]))
          /\ out'.op = "ScrollDelta" => MovesTo(ScrollDeltaCandidate(out'.arg[1]))]_vars

\* a pointer-move has arrived with a bar held and the bars hidden: the viewport
\* stays where the drag left it and the bar stays held
C24_Witness ==
    /\ out.op = "PointerMove"
    /\ scroll_bar_style.hide
    /\ held # HeldNone
    /\ out.set_viewport = <<>>

\* a wheel event has moved the viewport with the bars hidden
C24_WheelWitness ==
    /\ out.op = "PointerWheel"
    /\ scroll_bar_style.hide
    /\ out.set_viewport # <<>>

(***************************************************************************)
(* C25                                                                     *)
(***************************************************************************)
\* C25: a primary pointer-down with the bars shown at a position that lies in
\* the vertical and in the horizontal band ends with the vertical bar held,
\* anchored at the pointer's vertical coordinate, and leaves the horizontal
\* origin what it was.
C25_VerticalFirst ==
    [][\A pos \in PointerPositions :
          PrimaryDownOnShownBars(pos) =>
              \A cpos \in {PtAdd(pos, RectOrigin(child_viewport))} :
                  (InVerticalBand(cpos) /\ InHorizontalBand(cpos)) =>
                      /\ held'.tag = "Vertical"
                      /\ held'.offset = pos.y
                      /\ child_viewport'.x0 = child_viewport.x0]_vars

\* a pointer-down in the corner of both bars of content 1000x1000, the
\* horizontal origin at 900, has jumped down the vertical axis and holds the
\* vertical bar
C25_Witness ==
    /\ out.op = "PointerDown"
    /\ child_size = Sz(F(1000), F(1000))
    /\ calc_horizontal_bar_bounds # None
    /\ held = HeldVertical(F(95), Pt(F(900), F(900)))
    /\ RectOrigin(child_viewport) = Pt(F(900), F(900))
    /\ out.set_viewport # <<>>

(***************************************************************************)
(* C26                                                                     *)
(***************************************************************************)
\* the step is a layout pass that finds the box, the padded rectangle and the
\* child's size of the layout pass before it
SameLayoutAgain ==
    /\ out'.op = "compute_layout"
    /\ size' = size
    /\ actual_rect' = actual_rect
    /\ child_size' = child_size

\* the layout pass leaves the viewport, requests no layout and calls no on_scroll
Quiet ==
    /\ child_viewport' = child_viewport
    /\ out'.request_layout = 0
    /\ out'.onscroll = <<>>
    /\ out'.set_viewport = <<>>

\* C26: a layout pass with the box, the padding and the child's measured size of
\* the layout pass before it leaves the viewport unchanged, requests no layout
\* and calls no on_scroll, in whatever state it finds the view: with stable
\* sizes the requests stop after one layout pass.
C26_LayoutQuiescence == [][SameLayoutAgain => Quiet]_vars

\* the same for the layout passes that find a viewport of numbers
C26_QuiescenceOfNumericViewport ==
    [][(SameLayoutAgain /\ IsFinite(child_viewport.x0) /\ IsFinite(child_viewport.y0)) => Quiet]_vars

=============================================================================
